---------------------------- MODULE Spec2Model ----------------------------
(***************************************************************************)
(* Schema-alignment and reconstruction pipeline of trip_recommender:       *)
(*   scripts/build_ref_text.py   normalize, load_schema, match_questions,  *)
(*                               export_text                               *)
(*   scripts/build_user_json.py  load_schema, parse_ref_text,              *)
(*                               detect_answer_type, build_typeform_json   *)
(*   logic/normalize_typeform.py normalize_typeform                        *)
(*                                                                         *)
(* A Python str is a sequence of one-character strings, so that strip,     *)
(* lower, re.sub, re.split and re.search are computed character by         *)
(* character.  A Python dict is a function whose DOMAIN is its key set.    *)
(***************************************************************************)
EXTENDS Integers, Sequences, FiniteSets, TLC

VARIABLES
    pc,          \* position of the running script
    title,       \* normalize: the text handed to normalize
    norm1,       \* normalize(title)
    norm2,       \* normalize(normalize(title))
    fields,      \* match_questions: the loaded schema fields (list of dicts)
    qa_pairs,    \* match_questions: the (question, answer) blocks
    i,           \* match_questions: number of blocks the for loop has consumed
    matched,     \* match_questions / export_text: the matched entries
    unmatched,   \* match_questions: the unmatched blocks
    sim_calls,   \* number of difflib.get_close_matches calls made so far
    text,        \* the ref-aligned text written by export_text
    entries,     \* parse_ref_text result / build_typeform_json input
    doc,         \* the schema document (parsed JSON) given to load_schema
    loaded,      \* what load_schema returned
    schema_map,  \* build_typeform_json: ref -> {id, title, type}
    payload,     \* what build_typeform_json returned
    field_type,  \* detect_answer_type: the type hint
    answer,      \* detect_answer_type: the raw answer
    detected,    \* what detect_answer_type returned
    tf_json,     \* normalize_typeform: the payload handed in
    normalized   \* what normalize_typeform returned

normVars   == <<title, norm1, norm2>>
matchVars  == <<fields, qa_pairs, i, unmatched, sim_calls>>
tripVars   == <<text>>
schemaVars == <<doc, loaded>>
buildVars  == <<schema_map, payload>>
detectVars == <<field_type, answer, detected>>
tfVars     == <<tf_json, normalized>>
vars == <<pc, normVars, matchVars, matched, tripVars, entries, schemaVars,
          buildVars, detectVars, tfVars>>

\* Value of a variable the running script does not use.
Idle == <<"idle">>

IdleNorm   == title = Idle /\ norm1 = Idle /\ norm2 = Idle
IdleMatch  == fields = Idle /\ qa_pairs = Idle /\ i = 0 /\ unmatched = Idle
              /\ sim_calls = 0
IdleTrip   == text = Idle
IdleSchema == doc = Idle /\ loaded = Idle
IdleBuild  == schema_map = Idle /\ payload = Idle
IdleDetect == field_type = Idle /\ answer = Idle /\ detected = Idle
IdleTf     == tf_json = Idle /\ normalized = Idle

-----------------------------------------------------------------------------
(* Strings *)

NL == "\n"
Whitespace == {" ", NL, "\t"}
DigitSeq == <<"0", "1", "2", "3", "4", "5", "6", "7", "8", "9">>
Digit == {DigitSeq[k] : k \in 1..Len(DigitSeq)}
UpperSeq == <<"A", "B", "C", "D", "E", "F", "G", "H", "I", "J", "K", "L", "M",
              "N", "O", "P", "Q", "R", "S", "T", "U", "V", "W", "X", "Y", "Z">>
LowerSeq == <<"a", "b", "c", "d", "e", "f", "g", "h", "i", "j", "k", "l", "m",
              "n", "o", "p", "q", "r", "s", "t", "u", "v", "w", "x", "y", "z">>
Upper == {UpperSeq[k] : k \in 1..Len(UpperSeq)}
Lower == {LowerSeq[k] : k \in 1..Len(LowerSeq)}

\* All strings over the characters cs of length at most n.
RECURSIVE Strings(_, _)
Strings(cs, n) ==
    IF n = 0 THEN {<<>>}
    ELSE LET shorter == Strings(cs, n - 1)
         IN  shorter \cup {Append(s, c) : s \in shorter, c \in cs}

\* All sequences over the set S of length at most n.
SeqsUpTo(S, n) == UNION {[1..k -> S] : k \in 0..n}

\* s[from:] with a 1-based start.
Tail_(s, from) == SubSeq(s, from, Len(s))

\* str.lower() on one character and on a string.
lower_char(c) ==
    IF c \in Upper THEN LowerSeq[CHOOSE k \in 1..Len(UpperSeq) : UpperSeq[k] = c]
    ELSE c
lower(s) == [k \in 1..Len(s) |-> lower_char(s[k])]

Min(S) == CHOOSE x \in S : \A y \in S : x <= y
Max(S) == CHOOSE x \in S : \A y \in S : y <= x

\* Number of leading characters of s that lie in the class cls.
span(s, cls) ==
    LET out == {k \in 1..Len(s) : s[k] \notin cls}
    IN  IF out = {} THEN Len(s) ELSE Min(out) - 1

\* Number of trailing characters of s that lie in the class cls.
rspan(s, cls) ==
    LET out == {k \in 1..Len(s) : s[k] \notin cls}
    IN  IF out = {} THEN Len(s) ELSE Len(s) - Max(out)

\* str.strip(): drop the leading and the trailing whitespace.
lstrip(s) == Tail_(s, span(s, Whitespace) + 1)
rstrip(s) == SubSeq(s, 1, Len(s) - rspan(s, Whitespace))
strip(s) == rstrip(lstrip(s))

\* Whether the literal lit stands at position p of s (re.IGNORECASE or not).
LitAt(s, p, lit, ignorecase) ==
    /\ p + Len(lit) - 1 <= Len(s)
    /\ \A k \in 1..Len(lit) :
          IF ignorecase THEN lower_char(s[p + k - 1]) = lower_char(lit[k])
          ELSE s[p + k - 1] = lit[k]

\* The sub-string test `lit in s`.
Contains(s, lit) == \E p \in 1..(Len(s) + 1) : LitAt(s, p, lit, FALSE)

\* "sep".join(parts)
RECURSIVE join(_, _)
join(sep, parts) ==
    IF parts = <<>> THEN <<>>
    ELSE IF Len(parts) = 1 THEN parts[1]
    ELSE parts[1] \o sep \o join(sep, Tail(parts))

-----------------------------------------------------------------------------
(* build_ref_text.normalize *)

\* The characters re.sub(r"[^a-z0-9 ]+", "", ...) keeps.
NormKeep == Lower \cup Digit \cup {" "}

\* re.sub(r"[^a-z0-9 ]+", "", text.lower().strip())
normalize(t) ==
    SelectSeq(strip(lower(t)), LAMBDA c : c \in NormKeep)

MaxTitleLen == 3
NormChars == {"a", "B", "7", "?", " "}

InitNormalize ==
    /\ pc = "normalize"
    /\ title \in Strings(NormChars, MaxTitleLen)
    /\ norm1 = Idle /\ norm2 = Idle
    /\ IdleMatch /\ matched = Idle /\ IdleTrip /\ entries = Idle
    /\ IdleSchema /\ IdleBuild /\ IdleDetect /\ IdleTf

\* norm = normalize(title)
Normalize ==
    /\ pc = "normalize"
    /\ norm1' = normalize(title)
    /\ pc' = "renormalize"
    /\ UNCHANGED <<title, norm2, matchVars, matched, tripVars, entries,
                   schemaVars, buildVars, detectVars, tfVars>>

\* normalize applied to its own result
Renormalize ==
    /\ pc = "renormalize"
    /\ norm2' = normalize(norm1)
    /\ pc' = "done"
    /\ UNCHANGED <<title, norm1, matchVars, matched, tripVars, entries,
                   schemaVars, buildVars, detectVars, tfVars>>

NextNormalize == Normalize \/ Renormalize
SpecNormalize == InitNormalize /\ [][NextNormalize]_vars

\* C2: normalization is idempotent: normalize(normalize(t)) = normalize(t)
\* for every title t.
C2_Idempotent == pc = "done" => norm2 = norm1

-----------------------------------------------------------------------------
(* difflib.SequenceMatcher.ratio and difflib.get_close_matches, as called  *)
(* by match_questions (strings shorter than 200 characters, no junk)       *)

\* Length of the common run of a from p and b from q.
RECURSIVE CommonLen(_, _, _, _)
CommonLen(a, b, p, q) ==
    IF p <= Len(a) /\ q <= Len(b) /\ a[p] = b[q]
    THEN 1 + CommonLen(a, b, p + 1, q + 1) ELSE 0

\* find_longest_match: <<i, j, k>> with a[i..i+k-1] = b[j..j+k-1], k largest,
\* then i smallest, then j smallest; k = 0 when nothing matches.
find_longest_match(a, b) ==
    LET P == (1..Len(a)) \X (1..Len(b))
        size(x) == CommonLen(a, b, x[1], x[2])
    IN  IF \A x \in P : size(x) = 0 THEN <<1, 1, 0>>
        ELSE LET best == CHOOSE x \in P :
                     \A y \in P :
                        \/ size(y) < size(x)
                        \/ /\ size(y) = size(x)
                           /\ \/ x[1] < y[1]
                              \/ x[1] = y[1] /\ x[2] <= y[2]
             IN  <<best[1], best[2], size(best)>>

\* Sum of the sizes of get_matching_blocks(): the longest block m, then the
\* same to its left and to its right.
RECURSIVE matching_size(_, _)
blocks_size(a, b, m) ==
    IF m[3] = 0 THEN 0
    ELSE m[3]
         + matching_size(SubSeq(a, 1, m[1] - 1), SubSeq(b, 1, m[2] - 1))
         + matching_size(Tail_(a, m[1] + m[3]), Tail_(b, m[2] + m[3]))
matching_size(a, b) == blocks_size(a, b, find_longest_match(a, b))

\* SequenceMatcher(None, a, b).ratio() as the fraction <<2*M, T>>; 1.0 when
\* both strings are empty.
ratio(a, b) ==
    IF Len(a) + Len(b) = 0 THEN <<1, 1>>
    ELSE <<2 * matching_size(a, b), Len(a) + Len(b)>>

FracLess(x, y) == x[1] * y[2] < y[1] * x[2]
FracEq(x, y) == x[1] * y[2] = y[1] * x[2]

\* cutoff=0.45 in the call of get_close_matches
CutoffNum == 45
CutoffDen == 100
AtLeastCutoff(r) == r[1] * CutoffDen >= CutoffNum * r[2]

\* ord(c) for the characters that can occur in a string
Ord(c) ==
    IF c \in Lower THEN 96 + (CHOOSE k \in 1..Len(LowerSeq) : LowerSeq[k] = c)
    ELSE IF c \in Upper
    THEN 64 + (CHOOSE k \in 1..Len(UpperSeq) : UpperSeq[k] = c)
    ELSE IF c \in Digit
    THEN 47 + (CHOOSE k \in 1..Len(DigitSeq) : DigitSeq[k] = c)
    ELSE IF c = " " THEN 32 ELSE IF c = NL THEN 10 ELSE 63

\* x < y for Python strings
RECURSIVE StrLess(_, _)
StrLess(x, y) ==
    IF y = <<>> THEN FALSE
    ELSE IF x = <<>> THEN TRUE
    ELSE IF x[1] # y[1] THEN Ord(x[1]) < Ord(y[1])
    ELSE StrLess(Tail(x), Tail(y))

\* (score, x) < (score', x') for the tuples get_close_matches collects
ScoredLess(s, t) ==
    \/ FracLess(s[1], t[1])
    \/ FracEq(s[1], t[1]) /\ StrLess(s[2], t[2])

\* The (ratio, x) tuples of the possibilities that reach the cutoff.  The
\* matcher is built with seq2 = word and seq1 = x.
scored(word, possibilities) ==
    LET all == [k \in 1..Len(possibilities) |->
                   <<ratio(possibilities[k], word), possibilities[k]>>]
    IN  SelectSeq(all, LAMBDA t : AtLeastCutoff(t[1]))

\* The first of the best scorers.
first_best(result) ==
    IF result = <<>> THEN <<>>
    ELSE LET k == CHOOSE k \in 1..Len(result) :
                    /\ \A m \in 1..Len(result) :
                          ~FracLess(result[k][1], result[m][1])
                    /\ \A m \in 1..(k - 1) :
                          FracLess(result[m][1], result[k][1])
         IN  <<result[k][2]>>

\* heapq.nlargest(1, result): max(result) over the (score, x) tuples, the
\* first of them when several are equal.
nlargest1(result) ==
    IF result = <<>> THEN <<>>
    ELSE LET k == CHOOSE k \in 1..Len(result) :
                    /\ \A m \in 1..Len(result) :
                          ~ScoredLess(result[k], result[m])
                    /\ \A m \in 1..(k - 1) :
                          ScoredLess(result[m], result[k])
         IN  <<result[k][2]>>

\* A variant that keeps the first of the best scorers instead of the greatest
\* (score, string) tuple.
get_close_matches_first(word, possibilities) ==
    first_best(scored(word, possibilities))

\* difflib.get_close_matches(word, possibilities, n=1, cutoff=0.45)
get_close_matches(word, possibilities) ==
    nlargest1(scored(word, possibilities))

-----------------------------------------------------------------------------
(* build_ref_text.match_questions *)

\* all_titles = list(schema_map.keys()): the normalized titles in the order
\* of their first occurrence in fields.
all_titles(fs) ==
    LET norm == [k \in 1..Len(fs) |-> normalize(fs[k].title)]
        first == {k \in 1..Len(fs) : \A m \in 1..(k - 1) : norm[m] # norm[k]}
        kept == SelectSeq([k \in 1..Len(fs) |-> k], LAMBDA k : k \in first)
    IN  [k \in 1..Len(kept) |-> norm[kept[k]]]

\* schema_map = {normalize(f["title"]): f for f in fields}: a later field
\* with the same normalized title replaces the earlier one.
title_map(fs) ==
    [t \in {normalize(fs[k].title) : k \in 1..Len(fs)} |->
        fs[CHOOSE k \in 1..Len(fs) :
              /\ normalize(fs[k].title) = t
              /\ \A m \in (k + 1)..Len(fs) : normalize(fs[m].title) # t]]

\* The dict appended to matched.
matched_entry(field, ans, match_type) ==
    [question |-> field.title, question_ref |-> field.ref, answer |-> ans,
     answer_ref |-> field.ref, match_type |-> match_type]

\* A variant that keeps the normalized question of an unmatched block.
unmatched_item_normalized(question, ans) == <<normalize(question), ans>>

\* The tuple appended to unmatched.
unmatched_item(question, ans) == <<question, ans>>

\* The else branch of the loop body: difflib decides.
fuzzy_branch(match, smap) ==
    IF match # <<>>
    THEN [kind |-> "FUZZY", field |-> smap[match[1]], calls |-> 1]
    ELSE [kind |-> "MISS", field |-> <<>>, calls |-> 1]

\* The loop body for a normalized question, given schema_map and all_titles.
match_norm(norm_q, smap, titles) ==
    IF norm_q \in DOMAIN smap
    THEN [kind |-> "EXACT", field |-> smap[norm_q], calls |-> 0]
    ELSE fuzzy_branch(get_close_matches(norm_q, titles), smap)

\* A variant of the loop body that goes to difflib for every block.
match_block_fuzzy_only(question, fs) ==
    fuzzy_branch(get_close_matches(normalize(question), all_titles(fs)),
                 title_map(fs))

\* One pass of the for loop: the branch taken, the field selected and the
\* number of get_close_matches calls made.
match_block(question, fs) ==
    match_norm(normalize(question), title_map(fs), all_titles(fs))

MaxFields == 2
MaxBlocks == 2

\* Schema titles (stripped, as load_schema leaves them) and transcription
\* questions the model draws its inputs from.
FieldTitles == {<<"a", "b">>, <<"A", "b", "?">>, <<"b", "a">>, <<"b">>}
Questions == {<<"A", "B">>, <<"a">>, <<"X", "y", "z", "b">>, <<"b", "!">>}

\* The schema reference of the k-th field and the answer of the k-th block.
RefOf(k) == <<"r", DigitSeq[k + 1]>>
AnswerOf(k) == <<"v", DigitSeq[k + 1]>>
Text == <<"t", "e", "x", "t">>

InitMatch ==
    /\ pc = "match"
    /\ fields \in {[k \in 1..Len(ts) |->
                      [title |-> ts[k], ref |-> RefOf(k), type |-> Text]] :
                   ts \in SeqsUpTo(FieldTitles, MaxFields)}
    /\ qa_pairs \in {[k \in 1..Len(qs) |-> <<qs[k], AnswerOf(k)>>] :
                     qs \in SeqsUpTo(Questions, MaxBlocks)}
    /\ i = 0 /\ matched = <<>> /\ unmatched = <<>> /\ sim_calls = 0
    /\ IdleNorm /\ IdleTrip /\ entries = Idle
    /\ IdleSchema /\ IdleBuild /\ IdleDetect /\ IdleTf

\* matched.append({...}) for the block (question, ans), m being what the loop
\* body decided.
AppendMatched(m, ans, match_type) ==
    /\ m.kind = match_type
    /\ matched' = Append(matched, matched_entry(m.field, ans, match_type))
    /\ sim_calls' = sim_calls + m.calls
    /\ UNCHANGED unmatched

\* unmatched.append((question, answer)); continue
AppendUnmatched(m, question, ans) ==
    /\ m.kind = "MISS"
    /\ unmatched' = Append(unmatched, unmatched_item(question, ans))
    /\ sim_calls' = sim_calls + m.calls
    /\ UNCHANGED matched

\* for question, answer in qa_pairs: if norm_q in schema_map
MatchExact ==
    /\ pc = "match" /\ i < Len(qa_pairs)
    /\ AppendMatched(match_block(qa_pairs[i + 1][1], fields),
                     qa_pairs[i + 1][2], "EXACT")
    /\ i' = i + 1
    /\ UNCHANGED <<pc, fields, qa_pairs, normVars, tripVars, entries,
                   schemaVars, buildVars, detectVars, tfVars>>

\* else: match = difflib.get_close_matches(...); if match
MatchFuzzy ==
    /\ pc = "match" /\ i < Len(qa_pairs)
    /\ AppendMatched(match_block(qa_pairs[i + 1][1], fields),
                     qa_pairs[i + 1][2], "FUZZY")
    /\ i' = i + 1
    /\ UNCHANGED <<pc, fields, qa_pairs, normVars, tripVars, entries,
                   schemaVars, buildVars, detectVars, tfVars>>

\* else: unmatched.append((question, answer)); continue
MatchMiss ==
    /\ pc = "match" /\ i < Len(qa_pairs)
    /\ AppendUnmatched(match_block(qa_pairs[i + 1][1], fields),
                       qa_pairs[i + 1][1], qa_pairs[i + 1][2])
    /\ i' = i + 1
    /\ UNCHANGED <<pc, fields, qa_pairs, normVars, tripVars, entries,
                   schemaVars, buildVars, detectVars, tfVars>>

\* return matched, unmatched
MatchReturn ==
    /\ pc = "match" /\ i = Len(qa_pairs)
    /\ pc' = "done"
    /\ UNCHANGED <<matchVars, matched, normVars, tripVars, entries,
                   schemaVars, buildVars, detectVars, tfVars>>

NextMatch == MatchExact \/ MatchFuzzy \/ MatchMiss \/ MatchReturn
SpecMatch == InitMatch /\ [][NextMatch]_vars

\* The normalized titles of the schema, and the block the loop takes next.
NormTitles == {normalize(fields[k].title) : k \in 1..Len(fields)}
NextQuestion == normalize(qa_pairs[i + 1][1])
\* The titles whose similarity to q reaches the cutoff, and the best of them.
Passing(q) == {t \in NormTitles : AtLeastCutoff(ratio(t, q))}
Best(q) == {t \in Passing(q) : \A u \in Passing(q) : ~FracLess(ratio(t, q), ratio(u, q))}
\* The block (by its answer) a matched entry or an unmatched item came from.
PosOf(a) == CHOOSE p \in 1..Len(qa_pairs) : qa_pairs[p][2] = a

C4_ExactPath ==
    [][(pc = "match" /\ i < Len(qa_pairs) /\ NextQuestion \in NormTitles) =>
         /\ sim_calls' = sim_calls
         /\ unmatched' = unmatched
         /\ Len(matched') = Len(matched) + 1
         /\ LET e == matched'[Len(matched')]
            IN  /\ e.match_type = "EXACT"
                /\ normalize(e.question) = NextQuestion
                /\ \E k \in 1..Len(fields) :
                      /\ fields[k].title = e.question
                      /\ fields[k].ref = e.question_ref
                /\ e.answer = qa_pairs[i + 1][2]]_vars

\* An exact match was made for a question that differs from the raw title.
C4_Witness ==
    \E k \in 1..Len(matched) :
       /\ matched[k].match_type = "EXACT"
       /\ qa_pairs[PosOf(matched[k].answer)][1] # matched[k].question
       /\ sim_calls = 0

\* C5: every block consumed so far is in exactly one of matched and
\* unmatched, both in input order; an unmatched block keeps its question and
\* answer; a matched entry carries the ref of a field of the schema.
C5_NoBlockDropped ==
    pc \in {"match", "done"} =>
       LET pm == [k \in 1..Len(matched) |-> PosOf(matched[k].answer)]
           pu == [k \in 1..Len(unmatched) |-> PosOf(unmatched[k][2])]
       IN  /\ Len(matched) + Len(unmatched) = i
           /\ \A k \in 1..Len(matched) :
                 \E p \in 1..i : qa_pairs[p][2] = matched[k].answer
           /\ \A k \in 1..Len(unmatched) :
                 \E p \in 1..i : qa_pairs[p] = unmatched[k]
           /\ \A k \in 1..(Len(matched) - 1) : pm[k] < pm[k + 1]
           /\ \A k \in 1..(Len(unmatched) - 1) : pu[k] < pu[k + 1]
           /\ {pm[k] : k \in 1..Len(matched)}
                 \cap {pu[k] : k \in 1..Len(unmatched)} = {}
           /\ {pm[k] : k \in 1..Len(matched)}
                 \cup {pu[k] : k \in 1..Len(unmatched)} = 1..i
           /\ \A k \in 1..Len(matched) :
                 \E f \in 1..Len(fields) :
                    fields[f].ref = matched[k].question_ref
           /\ (pc = "done" => i = Len(qa_pairs))

\* The call returned with a block in each output, the unmatched one with a
\* question that normalize would change.
C5_Witness ==
    /\ pc = "done"
    /\ Len(matched) >= 1 /\ Len(unmatched) >= 1
    /\ \E k \in 1..Len(unmatched) : normalize(unmatched[k][1]) # unmatched[k][1]

-----------------------------------------------------------------------------
(* build_ref_text.export_text *)

\* str(n) for n >= 0
RECURSIVE str(_)
str(n) ==
    IF n < 10 THEN <<DigitSeq[n + 1]>>
    ELSE str(n \div 10) \o <<DigitSeq[(n % 10) + 1]>>

\* The characters of m['match_type'].
match_type_text(mt) ==
    IF mt = "EXACT" THEN <<"E", "X", "A", "C", "T">>
    ELSE <<"F", "U", "Z", "Z", "Y">>

\* The five f.write calls for the n-th entry m.
record_text(n, m) ==
    str(n) \o <<".", " ", "Q", ":", " ">> \o m.question \o <<NL>>
    \o <<" ", " ", " ", "Q", "_", "r", "e", "f", ":", " ">>
    \o m.question_ref \o <<NL>>
    \o <<" ", " ", " ", "A", ":", " ">> \o m.answer \o <<NL>>
    \o <<" ", " ", " ", "A", "_", "r", "e", "f", ":", " ">>
    \o m.answer_ref \o <<NL>>
    \o <<" ", " ", " ", "M", "a", "t", "c", "h", ":", " ">>
    \o match_type_text(m.match_type) \o <<NL, NL>>

\* for i, m in enumerate(matched, 1): the text written from entry n on.
RECURSIVE export_from(_, _)
export_from(ms, n) ==
    IF n > Len(ms) THEN <<>>
    ELSE record_text(n, ms[n]) \o export_from(ms, n + 1)

\* The content of the file export_text writes.
export_text(ms) == export_from(ms, 1)

-----------------------------------------------------------------------------
(* build_user_json.parse_ref_text *)

\* Number of characters of s before its first line break.
line_len(s) ==
    LET nl == {k \in 1..Len(s) : s[k] = NL}
    IN  IF nl = {} THEN Len(s) ELSE Min(nl) - 1

\* str.splitlines(): the first line has n characters.
RECURSIVE splitlines(_)
first_line(s, n) ==
    IF n >= Len(s) THEN <<s>>
    ELSE <<SubSeq(s, 1, n)>> \o splitlines(Tail_(s, n + 2))
splitlines(s) == IF s = <<>> THEN <<>> ELSE first_line(s, line_len(s))

\* Whether s[k] exists and is the character c.
char_is(s, k, c) == k <= Len(s) /\ s[k] = c

\* \s*: at position q of the line.
colon_after(line, q) ==
    char_is(line, q + span(Tail_(line, q), Whitespace), ":")

\* word, then \s*, then ":" at position p of the line (re.IGNORECASE).
word_colon(line, p, word) ==
    LitAt(line, p, word, TRUE) /\ colon_after(line, p + Len(word))

\* re.match(r"^\s*(A_ref|Match)\s*:", line, re.IGNORECASE), the line's
\* leading whitespace being ws characters long.
annotation_at(line, ws) ==
    \/ word_colon(line, ws + 1, <<"A", "_", "r", "e", "f">>)
    \/ word_colon(line, ws + 1, <<"M", "a", "t", "c", "h">>)
is_annotation(line) == annotation_at(line, span(line, Whitespace))

\* clean_text: the lines that are no A_ref or Match line, joined by "\n".
clean_text(t) ==
    join(<<NL>>, SelectSeq(splitlines(strip(t)),
                           LAMBDA line : ~is_annotation(line)))

\* Index of the last line break among s[from..to], 0 when there is none.
last_nl(s, from, to) ==
    LET nl == {k \in from..to : s[k] = NL}
    IN  IF nl = {} THEN 0 ELSE Max(nl)

\* \n\s*\d+\.\s* at p, q being the place after \n\s* and d the number of
\* digits there: the index of the last character matched, or 0.
numbered_end(s, q, d) ==
    IF d >= 1 /\ q + d <= Len(s) /\ s[q + d] = "."
    THEN q + d + span(Tail_(s, q + d + 1), Whitespace)
    ELSE 0

\* (?:\n\s*\d+\.\s*)|\n\s*\n at p, w being the length of the whitespace run
\* after s[p]: the index of the last character matched, or 0 for no match.
sep_end_ws(s, p, w, numbered) ==
    IF numbered # 0 THEN numbered ELSE last_nl(s, p + 1, p + w)
sep_end_at(s, p, w) ==
    sep_end_ws(s, p, w,
               numbered_end(s, p + 1 + w, span(Tail_(s, p + 1 + w), Digit)))
sep_end(s, p) ==
    IF s[p] # NL THEN 0
    ELSE sep_end_at(s, p, span(Tail_(s, p + 1), Whitespace))

\* re.split(r"(?:\n\s*\d+\.\s*)|\n\s*\n", s): the pieces from position
\* start on; seps are the places from there on where the pattern matches,
\* the leftmost of them is the next separator.
RECURSIVE split_from(_, _)
split_at(s, start, p) ==
    <<SubSeq(s, start, p - 1)>> \o split_from(s, sep_end(s, p) + 1)
split_next(s, start, seps) ==
    IF seps = {} THEN <<SubSeq(s, start, Len(s))>>
    ELSE split_at(s, start, Min(seps))
split_from(s, start) ==
    split_next(s, start, {p \in start..Len(s) : sep_end(s, p) # 0})
re_split(s) == split_from(s, 1)

\* Group 1 of tag\s*(.+) (DOTALL) when the tag stands at p: rest is what
\* follows the tag and k its leading whitespace; \s* gives one character
\* back when it has consumed everything.
rest_group(rest, k) ==
    IF k < Len(rest) THEN Tail_(rest, k + 1) ELSE <<rest[Len(rest)]>>
tag_group(block, tag, p) ==
    rest_group(Tail_(block, p + Len(tag)),
               span(Tail_(block, p + Len(tag)), Whitespace))
tag_first(block, tag, places) ==
    IF places = {} THEN [found |-> FALSE, group |-> <<>>]
    ELSE [found |-> TRUE, group |-> tag_group(block, tag, Min(places))]
\* re.search(tag\s*(.+), block, re.IGNORECASE | re.DOTALL): the leftmost
\* place where the tag is followed by at least one character.
tag_search(block, tag) ==
    tag_first(block, tag,
              {p \in 1..(Len(block) - Len(tag)) : LitAt(block, p, tag, TRUE)})

\* The characters [a-z0-9\-] under re.IGNORECASE.
RefChars == Lower \cup Upper \cup Digit \cup {"-"}

\* Group 1 of Q_ref:\s*([a-z0-9\-]+): the first place where the tag is
\* followed, after whitespace, by at least one character of the class.
ref_run(rest) == SubSeq(rest, 1, span(rest, RefChars))
after_ws(rest) == Tail_(rest, span(rest, Whitespace) + 1)
QrefTag == <<"Q", "_", "r", "e", "f", ":">>
qref_group(block, p) == ref_run(after_ws(Tail_(block, p + Len(QrefTag))))
qref_first(block, places) ==
    IF places = {} THEN [found |-> FALSE, group |-> <<>>]
    ELSE [found |-> TRUE, group |-> qref_group(block, Min(places))]
\* re.search(r"Q_ref:\s*([a-z0-9\-]+)", block, re.IGNORECASE)
qref_search(block) ==
    qref_first(block,
               {p \in 1..Len(block) :
                   LitAt(block, p, QrefTag, TRUE) /\ qref_group(block, p) # <<>>})

\* x.group(1).strip() if x else current
group_or(m, current) == IF m.found THEN strip(m.group) ELSE current

\* The loop body once question, q_ref and answer are known: the entries and
\* the accumulators after it.
block_result(st, question, q_ref, ans) ==
    IF q_ref # <<>> /\ ans # <<>>
    THEN [entries |-> Append(st.entries,
                             [ref |-> q_ref, question |-> question,
                              answer |-> ans]),
          current_q |-> <<>>, current_ref |-> <<>>, current_a |-> <<>>]
    ELSE IF q_ref = <<>>
    THEN [st EXCEPT !.current_q = st.current_q \o <<" ">> \o question]
    ELSE [st EXCEPT !.current_a = st.current_a \o <<" ">> \o ans]

\* One pass of `for block in blocks`.
parse_block(st, block) ==
    IF strip(block) = <<>> THEN st
    ELSE block_result(st,
            group_or(tag_search(block, <<"Q", ":">>), st.current_q),
            group_or(qref_search(block), st.current_ref),
            group_or(tag_search(block, <<"A", ":">>), st.current_a))

RECURSIVE parse_blocks(_, _, _)
parse_blocks(blocks, k, st) ==
    IF k > Len(blocks) THEN st.entries
    ELSE parse_blocks(blocks, k + 1, parse_block(st, blocks[k]))

\* parse_ref_text on the content of the file.
parse_ref_text(t) ==
    parse_blocks(re_split(clean_text(t)), 1,
                 [entries |-> <<>>, current_q |-> <<>>,
                  current_ref |-> <<>>, current_a |-> <<>>])

-----------------------------------------------------------------------------
(* export_text followed by parse_ref_text *)

MaxEntries == 2

\* Schema titles, references and answers of the entries written out.
EntryTitles == {<<"A", "g", "e", "?">>, <<"N", "a", "m", "e">>}
EntryRefs == {<<"r", "1">>, <<"a", "b", "-", "2">>}
EntryAnswers == {<<"2", "9">>, <<"y", "e", "s">>}
MatchedEntries ==
    {matched_entry([title |-> t, ref |-> r, type |-> Text], a, "EXACT") :
        t \in EntryTitles, r \in EntryRefs, a \in EntryAnswers}

InitRoundTrip ==
    /\ pc = "export"
    /\ matched \in SeqsUpTo(MatchedEntries, MaxEntries)
    /\ text = Idle /\ entries = Idle
    /\ IdleNorm /\ IdleMatch /\ IdleSchema /\ IdleBuild /\ IdleDetect /\ IdleTf

\* export_text(matched, out_path)
ExportText ==
    /\ pc = "export"
    /\ text' = export_text(matched)
    /\ pc' = "parse"
    /\ UNCHANGED <<matched, entries, normVars, matchVars, schemaVars,
                   buildVars, detectVars, tfVars>>

\* entries = parse_ref_text(REF_TEXT)
ParseRefText ==
    /\ pc = "parse"
    /\ entries' = parse_ref_text(text)
    /\ pc' = "done"
    /\ UNCHANGED <<matched, text, normVars, matchVars, schemaVars,
                   buildVars, detectVars, tfVars>>

NextRoundTrip == ExportText \/ ParseRefText
SpecRoundTrip == InitRoundTrip /\ [][NextRoundTrip]_vars

\* What the round trip is to give back for the matched entries ms.
Reproduced(ms) ==
    [k \in 1..Len(ms) |->
        [ref |-> ms[k].question_ref, question |-> ms[k].question,
         answer |-> ms[k].answer]]

\* C1: round-trip law: reading back what export_text wrote yields one entry
\* per matched entry, in the original order, with that entry's reference,
\* question and answer.
C1_RoundTrip == pc = "done" => entries = Reproduced(matched)

-----------------------------------------------------------------------------
(* JSON values: a str is a sequence of characters, an object is a function *)
(* on its keys, null/None is a value that is no str.                       *)

None == <<"<None>">>
EmptyDict == <<>>

\* d.get(k, default)
Get(d, k, default) == IF k \in DOMAIN d THEN d[k] ELSE default

\* bool(v) for a str or None
Truthy(v) == v # None /\ v # <<>>

-----------------------------------------------------------------------------
(* load_schema of build_ref_text and of build_user_json *)

TNumber == <<"n", "u", "m", "b", "e", "r">>
TChoice == <<"c", "h", "o", "i", "c", "e">>

\* f"id_{ref[:6]}"
RefPrefixLen == 6
derived_id(ref) ==
    <<"i", "d", "_">> \o SubSeq(ref, 1, IF Len(ref) < RefPrefixLen
                                        THEN Len(ref) ELSE RefPrefixLen)

\* build_ref_text.load_schema, loop body: the dict appended for f.
schema_field(f) ==
    [title |-> strip(Get(f, "title", <<>>)),
     ref   |-> Get(f, "ref", <<>>),
     type  |-> Get(f, "type", Text)]

\* What a loader gives back: the exception raised, or the value returned.
Raised(exc) == [status |-> exc]
Returned(v) == [status |-> "ok", value |-> v]

\* for f in data.get("fields", []): fields.append({...})
schema_fields(fs) == [k \in 1..Len(fs) |-> schema_field(fs[k])]

\* A loader that refuses a document without fields.
load_schema_strict(document) ==
    IF ~document.valid THEN Raised("JSONDecodeError")
    ELSE IF Get(document.data, "fields", <<>>) = <<>>
    THEN Raised("SchemaError")
    ELSE Returned(schema_fields(Get(document.data, "fields", <<>>)))

\* build_ref_text.load_schema: json.loads raises on a text that is no JSON.
load_schema(document) ==
    IF ~document.valid THEN Raised("JSONDecodeError")
    ELSE Returned(schema_fields(Get(document.data, "fields", <<>>)))

\* build_user_json.load_schema, loop body: ref_map[ref] = {...}
ref_entry(field) ==
    [id    |-> Get(field, "id", derived_id(field.ref)),
     title |-> Get(field, "title", <<>>),
     type  |-> Get(field, "type", Text)]

\* The fields that pass `if ref:`.
with_ref(fs) == {k \in 1..Len(fs) : Truthy(Get(fs[k], "ref", None))}

\* ref_map after the loop: the last field with a reference decides its entry.
ref_map_of(fs, keyed) ==
    [r \in {fs[k].ref : k \in keyed} |->
        ref_entry(fs[Max({k \in keyed : fs[k].ref = r})])]

\* return ref_map, form_id, title
schema_refs(data, fs) ==
    [ref_map |-> ref_map_of(fs, with_ref(fs)),
     form_id |-> Get(data, "id", <<"m", "o", "c", "k", "_", "f", "o", "r", "m", "_", "0", "0", "1">>),
     title   |-> Get(data, "title", <<"U", "n", "t", "i", "t", "l", "e", "d", " ", "F", "o", "r", "m">>)]

\* build_user_json.load_schema
load_schema_refs(document) ==
    IF ~document.valid THEN Raised("JSONDecodeError")
    ELSE Returned(schema_refs(document.data,
                              Get(document.data, "fields", <<>>)))

MaxSchemaFields == 2

\* Field descriptors of the schema documents: with a stored id, without id
\* and type (two whose references share their first six characters), without
\* reference, without title, with an empty reference.
RawFields ==
    {[title |-> <<" ", "A", "g", "e", "?", " ">>, ref |-> <<"a", "b", "c", "d", "e", "f", "g", "1">>, type |-> TNumber,
      id |-> <<"F", "1">>],
     [title |-> <<"N", "a", "m", "e">>, ref |-> <<"a", "b", "c", "d", "e", "f", "g", "2">>],
     [title |-> <<"P", "e", "t", "s">>, ref |-> <<"a", "b", "c", "d", "e", "f", "g", "3">>],
     [title |-> <<"C", "i", "t", "y">>],
     [ref |-> <<"r", "1">>, type |-> TChoice],
     [title |-> <<"Z", "i", "p">>, ref |-> <<>>, type |-> Text]}

\* The schema documents: a text that is no JSON, an object without "fields",
\* objects with a field list.
SchemaDocs ==
    {[valid |-> FALSE, data |-> EmptyDict],
     [valid |-> TRUE, data |-> [title |-> <<"T", "r", "i", "p", "s">>]]}
    \cup {[valid |-> TRUE, data |-> [id |-> <<"F">>, fields |-> fs]] :
             fs \in SeqsUpTo(RawFields, MaxSchemaFields)}

InitSchema ==
    /\ pc = "load"
    /\ doc \in SchemaDocs
    /\ loaded = Idle
    /\ IdleNorm /\ IdleMatch /\ matched = Idle /\ IdleTrip /\ entries = Idle
    /\ IdleBuild /\ IdleDetect /\ IdleTf

\* build_ref_text: fields = load_schema(FORM_PATH)
LoadSchema ==
    /\ pc = "load"
    /\ loaded' = load_schema(doc)
    /\ pc' = "loaded_fields"
    /\ UNCHANGED <<doc, normVars, matchVars, matched, tripVars, entries,
                   buildVars, detectVars, tfVars>>

\* build_user_json: schema_map, form_id, form_title = load_schema(FORM_PATH)
LoadSchemaRefs ==
    /\ pc = "load"
    /\ loaded' = load_schema_refs(doc)
    /\ pc' = "loaded_refs"
    /\ UNCHANGED <<doc, normVars, matchVars, matched, tripVars, entries,
                   buildVars, detectVars, tfVars>>

NextSchema == LoadSchema \/ LoadSchemaRefs
SpecSchema == InitSchema /\ [][NextSchema]_vars

\* The document is JSON but has no "fields" key or an empty field list.
NoFieldList ==
    doc.valid /\ Get(doc.data, "fields", <<>>) = <<>>

-----------------------------------------------------------------------------
(* build_user_json.detect_answer_type *)

\* float(digits) for a run of decimal digits
RECURSIVE float(_)
digit_value(c) == (CHOOSE k \in 1..10 : DigitSeq[k] = c) - 1
float(digits) ==
    IF digits = <<>> THEN 0
    ELSE 10 * float(SubSeq(digits, 1, Len(digits) - 1))
         + digit_value(digits[Len(digits)])

\* re.findall(r"\d+", a): the first of the digit runs, digits being the
\* places of a that hold a digit.
first_run(a, digits) ==
    IF digits = {} THEN <<>>
    ELSE SubSeq(a, Min(digits),
                Min(digits) + span(Tail_(a, Min(digits)), Digit) - 1)
findall_digits(a) == first_run(a, {k \in 1..Len(a) : a[k] \in Digit})

\* The three return statements.
number_answer(run) == [type |-> TNumber, data |-> [number |-> float(run)]]
choice_answer(a) == [type |-> TChoice, data |-> [choice |-> [label |-> a]]]
text_answer(a) == [type |-> Text, data |-> [text |-> a]]

\* try: return "number", ...[0]  except Exception: return "text", ...
number_or_text(a, run) ==
    IF run = <<>> THEN text_answer(a) ELSE number_answer(run)

\* if "number" in field_type or "scale" in field_type or re.match(r"^\d+", a)
number_hint(ft, a) ==
    \/ Contains(ft, <<"n", "u", "m", "b", "e", "r">>)
    \/ Contains(ft, <<"s", "c", "a", "l", "e">>)
    \/ span(a, Digit) > 0

\* if "choice" in field_type or "dropdown" in ... or "multiple" in ...
choice_hint(ft) ==
    \/ Contains(ft, <<"c", "h", "o", "i", "c", "e">>)
    \/ Contains(ft, <<"d", "r", "o", "p", "d", "o", "w", "n">>)
    \/ Contains(ft, <<"m", "u", "l", "t", "i", "p", "l", "e">>)

\* A variant that looks at the choice hints first.
detect_choice_first(ft, a) ==
    IF choice_hint(ft) THEN choice_answer(a)
    ELSE IF number_hint(ft, a) THEN number_or_text(a, findall_digits(a))
    ELSE text_answer(a)

\* The body of detect_answer_type once the hint is lower-cased and the
\* answer stripped.
detect(ft, a) ==
    IF number_hint(ft, a) THEN number_or_text(a, findall_digits(a))
    ELSE IF choice_hint(ft) THEN choice_answer(a)
    ELSE text_answer(a)

detect_answer_type(ft, a) == detect(lower(ft), strip(a))

MaxAnswerLen == 3

\* Type hints of schema fields and the characters of raw answers.
TypeHints ==
    {TNumber, TChoice, Text, <<"o", "p", "i", "n", "i", "o", "n", "_", "s", "c", "a", "l", "e">>, <<"M", "u", "l", "t", "i", "p", "l", "e", "_", "C", "h", "o", "i", "c", "e">>,
     <<"d", "r", "o", "p", "d", "o", "w", "n">>, <<"y", "e", "s", "_", "n", "o">>}
AnswerChars == {"1", "0", " ", "a"}

InitDetect ==
    /\ pc = "detect"
    /\ field_type \in TypeHints
    /\ answer \in Strings(AnswerChars, MaxAnswerLen)
    /\ detected = Idle
    /\ IdleNorm /\ IdleMatch /\ matched = Idle /\ IdleTrip /\ entries = Idle
    /\ IdleSchema /\ IdleBuild /\ IdleTf

\* ans_type, ans_data = detect_answer_type(field_type, answer)
DetectAnswerType ==
    /\ pc = "detect"
    /\ detected' = detect_answer_type(field_type, answer)
    /\ pc' = "detected"
    /\ UNCHANGED <<field_type, answer, normVars, matchVars, matched,
                   tripVars, entries, schemaVars, buildVars, tfVars>>

NextDetect == DetectAnswerType
SpecDetect == InitDetect /\ [][NextDetect]_vars

\* The digits the trimmed answer begins with.
LeadingDigits(a) == SubSeq(strip(a), 1, span(strip(a), Digit))

\* C7: whatever the type hint, an answer whose trimmed form begins with a
\* digit sequence is detected as a number whose value is that leading digit
\* run converted to a number.
C7_LeadingDigitsNumber ==
    (pc = "detected" /\ LeadingDigits(answer) # <<>>) =>
        /\ detected.type = TNumber
        /\ DOMAIN detected.data = {"number"}
        /\ detected.data.number = float(LeadingDigits(answer))

C7_Witness ==
    /\ pc = "detected"
    /\ choice_hint(lower(field_type))
    /\ Len(LeadingDigits(answer)) = 2 /\ Len(answer) = 3
    /\ detected.type = TNumber /\ detected.data.number = 10

-----------------------------------------------------------------------------
(* build_user_json.build_typeform_json *)

\* if ref not in schema_map: ... else: ...  (field_id, field_title,
\* field_type of the entry e)
field_for(e, smap) ==
    IF e.ref \notin DOMAIN smap
    THEN [id |-> derived_id(e.ref), title |-> e.question, type |-> Text]
    ELSE [id |-> smap[e.ref].id, title |-> smap[e.ref].title,
          type |-> smap[e.ref].type]

\* answer_entry = {"field": {...}, "type": ans_type}; update(ans_data)
answer_entry(field, det) ==
    det.data @@ [field |-> [id |-> field.id, type |-> field.type],
                 type |-> det.type]
answer_for(e, field) ==
    answer_entry(field, detect_answer_type(field.type, e.answer))

\* A variant that keeps one definition per field id: the entries that are
\* the first with their field id, and the definitions made for them.
first_of_id(es, smap) ==
    SelectSeq([k \in 1..Len(es) |-> k],
              LAMBDA k : \A j \in 1..(k - 1) :
                  field_for(es[j], smap).id # field_for(es[k], smap).id)
fields_at(es, smap, kept) ==
    [n \in 1..Len(kept) |-> field_for(es[kept[n]], smap)]
payload_fields_dedup(es, smap) == fields_at(es, smap, first_of_id(es, smap))

\* fields and answers after the loop
payload_fields(es, smap) == [k \in 1..Len(es) |-> field_for(es[k], smap)]
payload_answers(es, smap) ==
    [k \in 1..Len(es) |-> answer_for(es[k], field_for(es[k], smap))]

\* payload = {...}; landed and submitted are the two clock readings.
build_typeform_json(es, smap, form_id, form_title, landed, submitted) ==
    [event_id |-> <<"m", "o", "c", "k", "_", "e", "v", "e", "n", "t", "_", "0", "0", "1">>,
     event_type |-> <<"f", "o", "r", "m", "_", "r", "e", "s", "p", "o", "n", "s", "e">>,
     form_response |->
        [form_id |-> form_id,
         token |-> <<"m", "o", "c", "k", "_", "t", "o", "k", "e", "n", "_", "1", "2", "3">>,
         landed_at |-> landed,
         submitted_at |-> submitted,
         hidden |-> [user_id |-> <<"1", "2", "3", "4", "5">>],
         definition |-> [id |-> form_id, title |-> form_title,
                         fields |-> payload_fields(es, smap)],
         answers |-> payload_answers(es, smap)]]

\* datetime.utcnow().isoformat() + "Z" at two successive instants
Clock == <<<<"T", "0", "Z">>, <<"T", "1", "Z">>>>

\* Entries as parse_ref_text returns them: references of the schema fields
\* and references no schema knows.
BuildEntries ==
    {[ref |-> <<"a", "b", "c", "d", "e", "f", "g", "1">>, question |-> <<"A", "g", "e", "?">>, answer |-> <<"3", " ", "x">>],
     [ref |-> <<"a", "b", "c", "d", "e", "f", "g", "2">>, question |-> <<"N", "a", "m", "e">>, answer |-> <<"y", "e", "s">>],
     [ref |-> <<"a", "b", "c", "d", "e", "f", "g", "3">>, question |-> <<"P", "e", "t", "s">>, answer |-> <<"n", "o">>],
     [ref |-> <<"r", "1">>, question |-> <<>>, answer |-> <<"2", "n", "d">>],
     [ref |-> <<"z", "z", "9">>, question |-> <<"W", "h", "y", "?">>, answer |-> <<"h", "i">>]}

InitBuild ==
    /\ pc = "build"
    /\ doc = Idle
    /\ loaded \in {load_schema_refs(d).value : d \in {x \in SchemaDocs : x.valid}}
    /\ schema_map = loaded.ref_map
    /\ entries \in SeqsUpTo(BuildEntries, MaxEntries)
    /\ payload = Idle
    /\ IdleNorm /\ IdleMatch /\ matched = Idle /\ IdleTrip
    /\ IdleDetect /\ IdleTf

\* payload = build_typeform_json(entries, schema_map, form_id, form_title)
BuildTypeformJson ==
    /\ pc = "build"
    /\ \E t1 \in 1..Len(Clock) : \E t2 \in t1..Len(Clock) :
          payload' = build_typeform_json(entries, schema_map, loaded.form_id,
                                         loaded.title, Clock[t1], Clock[t2])
    /\ pc' = "built"
    /\ UNCHANGED <<schema_map, entries, normVars, matchVars, matched,
                   tripVars, schemaVars, detectVars, tfVars>>

NextBuild == BuildTypeformJson
SpecBuild == InitBuild /\ [][NextBuild]_vars

\* The field definitions and the answers of the payload built.
BuiltFields == payload.form_response.definition.fields
BuiltAnswers == payload.form_response.answers

\* C8: build_typeform_json returns a payload with exactly one field
\* definition and one answer per entry, in input order and without
\* deduplication; an entry whose reference the schema lacks gets a
\* placeholder definition of type text titled with the entry's question;
\* every answer's field id is the id of a field definition.
C8_BuildTotal ==
    pc = "built" =>
        /\ Len(BuiltFields) = Len(entries)
        /\ Len(BuiltAnswers) = Len(entries)
        /\ \A k \in 1..Len(entries) :
              /\ entries[k].ref \notin DOMAIN schema_map =>
                    /\ BuiltFields[k].type = Text
                    /\ BuiltFields[k].title = entries[k].question
              /\ entries[k].ref \in DOMAIN schema_map =>
                    BuiltFields[k] = schema_map[entries[k].ref]
              /\ BuiltAnswers[k].field.id = BuiltFields[k].id
              /\ \E j \in 1..Len(BuiltFields) :
                    BuiltFields[j].id = BuiltAnswers[k].field.id

C8_Witness ==
    /\ pc = "built" /\ Len(entries) = 2
    /\ entries[1].ref = entries[2].ref
    /\ entries[1].ref \notin DOMAIN schema_map
    /\ DOMAIN schema_map # {}
    /\ Len(BuiltFields) = 2 /\ BuiltFields[1] = BuiltFields[2]

-----------------------------------------------------------------------------
(* logic/normalize_typeform.normalize_typeform *)

\* {"title": f.get("title"), "type": f.get("type")}
field_info(f) == [title |-> Get(f, "title", None), type |-> Get(f, "type", None)]

\* fields_by_id: a later definition with the same id replaces the earlier.
fields_by_id(defs) ==
    [fid \in {defs[k].id : k \in 1..Len(defs)} |->
        field_info(defs[Max({k \in 1..Len(defs) : defs[k].id = fid})])]

\* meta = {...}
meta_of(form) ==
    [form_id |-> Get(form, "form_id", None),
     token |-> Get(form, "token", None),
     landed_at |-> Get(form, "landed_at", None),
     submitted_at |-> Get(form, "submitted_at", None),
     hidden |-> Get(form, "hidden", EmptyDict)]

\* A variant that never looks at the answer's embedded type.
question_type_meta_only(field_meta, embedded_type) == Get(field_meta, "type", None)

\* question_type = field_meta.get("type") or embedded_type
question_type(field_meta, embedded_type) ==
    IF Truthy(Get(field_meta, "type", None)) THEN field_meta.type
    ELSE embedded_type

\* A variant of the fallback that drops the answer's type as well.
raw_answer_untyped(ans) == [k \in DOMAIN ans \ {"field", "type"} |-> ans[k]]

\* {k: v for k, v in ans.items() if k not in ("field",)}
raw_answer(ans) == [k \in DOMAIN ans \ {"field"} |-> ans[k]]

\* The if/elif chain on answer_type.
answer_value(ans, answer_type) ==
    IF answer_type = TChoice
    THEN Get(Get(ans, "choice", EmptyDict), "label", None)
    ELSE IF answer_type = TNumber THEN Get(ans, "number", None)
    ELSE IF answer_type = Text THEN Get(ans, "text", None)
    ELSE raw_answer(ans)

\* normalized_answers.append({...}), field_meta being the map's entry.
normalized_entry(ans, field_id, embedded_type, field_meta) ==
    [field_id |-> field_id,
     field_title |-> Get(field_meta, "title", None),
     field_type |-> question_type(field_meta, embedded_type),
     answer_type |-> Get(ans, "type", None),
     value |-> answer_value(ans, Get(ans, "type", None))]

\* field_meta = fields_by_id.get(field_id, {})
normalized_by_id(ans, field_id, embedded_type, by_id) ==
    normalized_entry(ans, field_id, embedded_type,
                     Get(by_id, field_id, EmptyDict))

\* The loop body for ans, field being ans.get("field", {}).
normalized_answer(ans, field, by_id) ==
    normalized_by_id(ans, Get(field, "id", None), Get(field, "type", None),
                     by_id)

normalized_answers(answers, by_id) ==
    [k \in 1..Len(answers) |->
        normalized_answer(answers[k], Get(answers[k], "field", EmptyDict),
                          by_id)]

\* The function body once form and the definition's fields are at hand:
\* f["id"] raises KeyError for a definition without id.
normalize_form(form, defs) ==
    IF \E k \in 1..Len(defs) : "id" \notin DOMAIN defs[k]
    THEN Raised("KeyError")
    ELSE Returned([meta |-> meta_of(form),
                   answers |-> normalized_answers(Get(form, "answers", <<>>),
                                                  fields_by_id(defs))])

\* form.get("definition", {}).get("fields", [])
definition_fields(form) ==
    Get(Get(form, "definition", EmptyDict), "fields", <<>>)

\* normalize_typeform: tf_json["form_response"] raises KeyError when absent.
normalize_typeform(tf) ==
    IF "form_response" \notin DOMAIN tf THEN Raised("KeyError")
    ELSE normalize_form(tf.form_response, definition_fields(tf.form_response))

MaxDefs == 2
MaxAnswers == 1

\* Field definitions of hand-built payloads: complete, a second one with the
\* same id and no type, one with an empty type and no title, one without id.
DefVariants ==
    {[id |-> <<"f", "1">>, title |-> <<"A", "g", "e">>, type |-> TNumber],
     [id |-> <<"f", "1">>, title |-> <<"N", "a", "m", "e">>],
     [id |-> <<"f", "2">>, type |-> <<>>],
     [title |-> <<"X">>, type |-> Text]}

\* The field record of an answer: none, one of a defined id, one of an id no
\* definition has.
FieldParts ==
    {EmptyDict,
     [field |-> [id |-> <<"f", "1">>, type |-> TChoice]],
     [field |-> [id |-> <<"f", "3">>, type |-> Text]]}

\* The typed part of an answer: the three known kinds, an unknown kind, no
\* kind at all.
AnswerParts ==
    {[type |-> TChoice, choice |-> [label |-> <<"a">>]],
     [type |-> TNumber, number |-> 3],
     [type |-> Text, text |-> <<"h", "i">>],
     [type |-> <<"b", "o", "o", "l", "e", "a", "n">>, boolean |-> TRUE],
     [text |-> <<"h", "i">>]}

AnswerVariants == {a @@ f : a \in AnswerParts, f \in FieldParts}

DefinitionParts ==
    {EmptyDict, [definition |-> [id |-> <<"F">>]]}
    \cup {[definition |-> [id |-> <<"F">>, fields |-> fs]] :
             fs \in SeqsUpTo(DefVariants, MaxDefs)}
AnswersParts ==
    {EmptyDict}
    \cup {[answers |-> as] : as \in SeqsUpTo(AnswerVariants, MaxAnswers)}
HiddenParts == {EmptyDict, [hidden |-> [user_id |-> <<"1", "2", "3", "4", "5">>]]}

\* The payloads handed to normalize_typeform.
TfPayloads ==
    {[event_id |-> <<"e", "1">>]}
    \cup {[event_id |-> <<"e", "1">>,
           form_response |-> [form_id |-> <<"F">>] @@ d @@ a @@ h] :
             d \in DefinitionParts, a \in AnswersParts, h \in HiddenParts}

InitNormalizeTypeform ==
    /\ pc = "normalize_typeform"
    /\ tf_json \in TfPayloads
    /\ normalized = Idle
    /\ IdleNorm /\ IdleMatch /\ matched = Idle /\ IdleTrip /\ entries = Idle
    /\ IdleSchema /\ IdleBuild /\ IdleDetect

\* normalized_user = normalize_typeform(user_json)
NormalizeTypeform ==
    /\ pc = "normalize_typeform"
    /\ normalized' = normalize_typeform(tf_json)
    /\ pc' = "normalized"
    /\ UNCHANGED <<tf_json, normVars, matchVars, matched, tripVars, entries,
                   schemaVars, buildVars, detectVars>>

NextNormalizeTypeform == NormalizeTypeform
SpecNormalizeTypeform ==
    InitNormalizeTypeform /\ [][NextNormalizeTypeform]_vars

\* The call has returned a result.
NormalizedOk == pc = "normalized" /\ normalized.status = "ok"
\* The answers and the field definitions of the payload handed in.
InAnswers == Get(tf_json.form_response, "answers", <<>>)
InDefs == definition_fields(tf_json.form_response)
OutAnswers == normalized.value.answers

\* The value the claim gives for the answer a of type t.
ValueByType(a, t, out) ==
    /\ out.answer_type = t
    /\ (t = TChoice /\ "choice" \in DOMAIN a) => out.value = a.choice.label
    /\ (t = TNumber /\ "number" \in DOMAIN a) => out.value = a.number
    /\ (t = Text /\ "text" \in DOMAIN a) => out.value = a.text
    /\ t \notin {TChoice, TNumber, Text} =>
          /\ DOMAIN out.value = DOMAIN a \ {"field"}
          /\ \A key \in DOMAIN a \ {"field"} : out.value[key] = a[key]

DefsOf(fid) == {k \in 1..Len(InDefs) : InDefs[k].id = fid}
KeptDef(fid) == InDefs[Max(DefsOf(fid))]
\* The id and the type embedded in the answer a.
EmbeddedId(a) == Get(Get(a, "field", EmptyDict), "id", None)
EmbeddedType(a) == Get(Get(a, "field", EmptyDict), "type", None)
\* The payload has what normalize_typeform indexes without a default.
Indexable ==
    /\ "form_response" \in DOMAIN tf_json
    /\ \A k \in 1..Len(InDefs) : "id" \in DOMAIN InDefs[k]

\* Title and type as amended: the embedded type also stands in for a
\* definition that has no type or an empty one.
MetaWithFallback(a, fid, out) ==
    /\ out.field_id = fid
    /\ DefsOf(fid) = {} =>
          (out.field_title = None /\ out.field_type = EmbeddedType(a))
    /\ DefsOf(fid) # {} =>
          /\ out.field_title = Get(KeptDef(fid), "title", None)
          /\ out.field_type =
                IF Truthy(Get(KeptDef(fid), "type", None))
                THEN KeptDef(fid).type ELSE EmbeddedType(a)

\* C10 (as amended): field_title is the title of the last field definition
\* with the answer's field id; field_type is that definition's type when it
\* has a non-empty one and the answer's embedded type otherwise, that is
\* when the id is missing from the definitions or its definition has no
\* type; a missing definition block, title, type, hidden mapping or field
\* record never makes the call fail.
C10_MetadataLookup ==
    /\ (pc = "normalized" /\ Indexable) => normalized.status = "ok"
    /\ NormalizedOk =>
          \A k \in 1..Len(InAnswers) :
              MetaWithFallback(InAnswers[k], EmbeddedId(InAnswers[k]),
                               OutAnswers[k])

\* Title and type as stated: the definition's own whenever the id is defined.
MetaOfDefinition(a, fid, out) ==
    /\ DefsOf(fid) = {} => out.field_type = EmbeddedType(a)
    /\ DefsOf(fid) # {} =>
          /\ out.field_title = Get(KeptDef(fid), "title", None)
          /\ out.field_type = Get(KeptDef(fid), "type", None)

\* C10 as stated: the embedded type is used only when the id is missing from
\* the field definitions.
C10_EmbeddedOnlyWhenMissing ==
    /\ (pc = "normalized" /\ Indexable) => normalized.status = "ok"
    /\ NormalizedOk =>
          \A k \in 1..Len(InAnswers) :
              MetaOfDefinition(InAnswers[k], EmbeddedId(InAnswers[k]),
                               OutAnswers[k])

C10_Witness ==
    /\ NormalizedOk /\ Len(InAnswers) = 1 /\ Len(InDefs) = 1
    /\ "hidden" \notin DOMAIN tf_json.form_response
    /\ DefsOf(EmbeddedId(InAnswers[1])) # {}
    /\ "type" \notin DOMAIN InDefs[1]
    /\ OutAnswers[1].field_type = TChoice
    /\ OutAnswers[1].field_title = <<"N", "a", "m", "e">>

-----------------------------------------------------------------------------
(* build_ref_text.parse_text_responses *)

\* \n\s*\n at p: the index of the last character matched, or 0.
blank_end(s, p) ==
    IF s[p] # NL THEN 0
    ELSE last_nl(s, p + 1, p + span(Tail_(s, p + 1), Whitespace))

\* re.split(r"\n\s*\n", s): the pieces from position start on, seps being
\* the places from there on where the pattern matches.
RECURSIVE blank_split_from(_, _)
blank_split_next(s, start, seps) ==
    IF seps = {} THEN <<SubSeq(s, start, Len(s))>>
    ELSE <<SubSeq(s, start, Min(seps) - 1)>>
         \o blank_split_from(s, blank_end(s, Min(seps)) + 1)
blank_split_from(s, start) ==
    blank_split_next(s, start, {p \in start..Len(s) : blank_end(s, p) # 0})

\* block.split("\n")
RECURSIVE split_nl(_)
split_nl_at(s, n) ==
    IF n >= Len(s) THEN <<s>>
    ELSE <<SubSeq(s, 1, n)>> \o split_nl(Tail_(s, n + 2))
split_nl(s) == split_nl_at(s, line_len(s))

\* [line.strip() for line in block.split("\n") if line.strip()]
stripped_lines(ls) ==
    SelectSeq([k \in 1..Len(ls) |-> strip(ls[k])], LAMBDA l : l # <<>>)

\* A variant that takes the second line alone for the answer.
qa_of_lines_second(lines) ==
    IF Len(lines) >= 2 THEN <<(<<lines[1], lines[2]>>)>> ELSE <<>>

\* if len(lines) >= 2: qa_pairs.append((lines[0], " ".join(lines[1:])))
qa_of_lines(lines) ==
    IF Len(lines) >= 2
    THEN <<(<<lines[1], join(<<" ">>, Tail(lines))>>)>>
    ELSE <<>>

\* for block in blocks: the pairs appended from block k on.
RECURSIVE qa_from(_, _)
qa_from(blocks, k) ==
    IF k > Len(blocks) THEN <<>>
    ELSE qa_of_lines(stripped_lines(split_nl(blocks[k])))
         \o qa_from(blocks, k + 1)

\* parse_text_responses on the content of the file.
parse_text_responses(t) == qa_from(blank_split_from(strip(t), 1), 1)

MaxTextLen == 8
TextChars == {"a", " ", NL}

InitParseText ==
    /\ pc = "parse_text"
    /\ text \in Strings(TextChars, MaxTextLen)
    /\ qa_pairs = Idle
    /\ fields = Idle /\ i = 0 /\ unmatched = Idle /\ sim_calls = 0
    /\ IdleNorm /\ matched = Idle /\ entries = Idle
    /\ IdleSchema /\ IdleBuild /\ IdleDetect /\ IdleTf

\* qa_pairs = parse_text_responses(TEXT_PATH)
ParseTextResponses ==
    /\ pc = "parse_text"
    /\ qa_pairs' = parse_text_responses(text)
    /\ pc' = "parsed_text"
    /\ UNCHANGED <<fields, i, unmatched, sim_calls, text, normVars, matched,
                   entries, schemaVars, buildVars, detectVars, tfVars>>

NextParseText == ParseTextResponses
SpecParseText == InitParseText /\ [][NextParseText]_vars

\* The lines of the transcription, and whether line k holds a non-blank
\* character.
TextLines == split_nl(text)
NonBlank(ls, k) == k \in 1..Len(ls) /\ strip(ls[k]) # <<>>
\* The lines a block starts at: a non-blank line that follows a blank line
\* or opens the text; the last line of the block that starts at a.
BlockStarts(ls) == {a \in 1..Len(ls) : NonBlank(ls, a) /\ ~NonBlank(ls, a - 1)}
BlockEnd(ls, a) ==
    Max({b \in a..Len(ls) : \A k \in a..b : NonBlank(ls, k)})
\* The blocks of at least two lines, in source order.
AnsweredStarts(ls) == {a \in BlockStarts(ls) : NonBlank(ls, a + 1)}
NthOf(S, n) == CHOOSE x \in S : Cardinality({y \in S : y < x}) = n - 1
\* The pair of the block of lines a..b.
PairOf(ls, a, b) ==
    <<strip(ls[a]),
      join(<<" ">>, [k \in 1..(b - a) |-> strip(ls[a + k])])>>
PairsOf(ls, starts) ==
    [n \in 1..Cardinality(starts) |->
        PairOf(ls, NthOf(starts, n), BlockEnd(ls, NthOf(starts, n)))]

\* C11: parse_text_responses returns, in source order, one pair per block of
\* at least two non-blank lines, blocks being delimited by runs of blank
\* lines: the question is the block's first line and the answer its later
\* lines joined by single spaces; shorter blocks produce nothing.
C11_OnePairPerBlock ==
    pc = "parsed_text" =>
        qa_pairs = PairsOf(TextLines, AnsweredStarts(TextLines))

C11_Witness ==
    /\ pc = "parsed_text" /\ Len(qa_pairs) = 1
    /\ Cardinality(BlockStarts(TextLines)) = 2
    /\ \E k \in 2..(Len(TextLines) - 2) :
          ~NonBlank(TextLines, k) /\ ~NonBlank(TextLines, k + 1)

-----------------------------------------------------------------------------
(* parse_ref_text on texts with incomplete blocks *)

MaxRefBlocks == 3

\* Blocks of a ref-aligned text: a complete one, one without A tag, one
\* without Q_ref tag, one without any tag.
RefBlocks ==
    {<<"Q", ":", " ", "x", "\n", " ", " ", " ", "Q", "_", "r", "e", "f", ":", " ", "r", "1", "\n", " ", " ", " ", "A", ":", " ", "5">>,
     <<"Q", ":", " ", "y", "\n", " ", " ", " ", "Q", "_", "r", "e", "f", ":", " ", "r", "2">>,
     <<"Q", ":", " ", "z", "\n", " ", " ", " ", "A", ":", " ", "7">>,
     <<"w">>}

InitRefText ==
    /\ pc = "parse"
    /\ text \in {join(<<NL, NL>>, bs) : bs \in SeqsUpTo(RefBlocks, MaxRefBlocks)}
    /\ entries = Idle /\ matched = Idle
    /\ IdleNorm /\ IdleMatch /\ IdleSchema /\ IdleBuild /\ IdleDetect /\ IdleTf

NextRefText == ParseRefText
SpecRefText == InitRefText /\ [][NextRefText]_vars

\* The blocks the loop of parse_ref_text goes through.
ParsedBlocks == re_split(clean_text(strip(text)))
\* The block carries a Q_ref tag with the reference r and an A tag with the
\* answer a.
OwnTags(block, r, a) ==
    /\ qref_search(block).found /\ strip(qref_search(block).group) = r
    /\ tag_search(block, <<"A", ":">>).found
    /\ strip(tag_search(block, <<"A", ":">>).group) = a

\* C12: every entry parse_ref_text emits has a non-empty reference and an
\* answer with a non-whitespace character, both taken from the Q_ref and A
\* tags of one block; the accumulators left by earlier incomplete blocks
\* never supply them.
C12_EntriesFromOwnBlock ==
    pc = "done" =>
        \A k \in 1..Len(entries) :
            /\ entries[k].ref # <<>>
            /\ strip(entries[k].answer) # <<>>
            /\ \E b \in 1..Len(ParsedBlocks) :
                  OwnTags(ParsedBlocks[b], entries[k].ref, entries[k].answer)

-----------------------------------------------------------------------------
(* build_typeform_json followed by normalize_typeform *)

\* run_local: normalize_typeform(user_json), user_json being the payload
\* build_user_json saved (json.dumps and json.load keep its strings,
\* numbers, lists and objects as they are).
NormalizeBuilt ==
    /\ pc = "built"
    /\ tf_json' = payload
    /\ normalized' = normalize_typeform(payload)
    /\ pc' = "normalized"
    /\ UNCHANGED <<schema_map, payload, entries, normVars, matchVars,
                   matched, tripVars, schemaVars, detectVars>>

NextPipeline == BuildTypeformJson \/ NormalizeBuilt
SpecPipeline == InitBuild /\ [][NextPipeline]_vars

\* C13: after reconstruction and normalization the i-th normalized answer
\* has the title and the type of the field definition the builder made for
\* the i-th entry, and entries with different references never share a
\* field id.
C13_AnswersKeepQuestion ==
    NormalizedOk =>
        /\ Len(OutAnswers) = Len(entries)
        /\ \A k \in 1..Len(entries) :
              /\ OutAnswers[k].field_title = BuiltFields[k].title
              /\ OutAnswers[k].field_type = BuiltFields[k].type
        /\ \A j \in 1..Len(entries) : \A k \in 1..Len(entries) :
              entries[j].ref # entries[k].ref =>
                  BuiltFields[j].id # BuiltFields[k].id

=============================================================================
